---- MODULE Spec2Model ----
(***************************************************************************)
(* redshift-minimal-rs: the gamma method registry (src/gamma/mod.rs), the  *)
(* RandR backend (src/gamma/gamma_randr.rs) and the program's main         *)
(* (src/main.rs), together with the X server the backend talks to.         *)
(*                                                                         *)
(* Spec     : a client that constructs a backend through init_gamma_method *)
(*            and then calls start / set_temperature / restore in any      *)
(*            order, any number of times.                                  *)
(* SpecMain : one run of the program's main().                             *)
(***************************************************************************)
EXTENDS Integers, Sequences, FiniteSets, TLC

(* ------------------------------------------------------------------ *)
(* Program constants                                                    *)
(* ------------------------------------------------------------------ *)
RANDR_MAJOR_VERSION == 1
RANDR_MINOR_VERSION == 3
NEUTRAL_TEMP == 6500
MIN_TEMP == 1000
MAX_TEMP == 25000
\* u16::max_value() as f64 + 1.0
u16_max1 == 65536
\* i32::MAX, the largest value str::parse::<i32> accepts
I32_MAX == 2147483647

(* ------------------------------------------------------------------ *)
(* Bounds of the model                                                  *)
(* ------------------------------------------------------------------ *)
\* the X server has at most MaxCrtcs CRTCs
MaxCrtcs == 2
\* a CRTC's gamma ramp has at most MaxRampSize entries per channel
MaxRampSize == 3

(* ------------------------------------------------------------------ *)
(* Values                                                               *)
(* ------------------------------------------------------------------ *)
Min(a, b) == IF a < b THEN a ELSE b
Max(a, b) == IF a > b THEN a ELSE b

\* a float-to-u16 `as` cast of a non-negative value: truncates, saturates
AsU16(x) == Min(Max(x, 0), u16_max1 - 1)

\* The ramps the server applies to CRTC id, of gamma size n, before the
\* program runs (what an earlier adjustment left): three channels of n
\* entries each, different per channel and per CRTC.
BaselineRamp(id, n) ==
    << [i \in 1..n |-> AsU16(id * 1000 + i)],
       [i \in 1..n |-> AsU16(id * 2000 + i)],
       [i \in 1..n |-> AsU16(id * 3000 + i)] >>

\* the gamma sizes a CRTC has: none (an inert CRTC) or MaxRampSize
RampSizes == {0, MaxRampSize}

(* ------------------------------------------------------------------ *)
(* transition::ColorSetting and colorramp::fill                         *)
(* ------------------------------------------------------------------ *)
\* A ColorSetting: temp in Kelvin, gamma per channel in tenths (10 is the
\* neutral 1.0, 5 is 0.5), brightness in percent (100 is the neutral 1.0).
ColorSetting(temp, gamma, brightness) ==
    [temp |-> temp, gamma |-> gamma, brightness |-> brightness]

NeutralSetting == ColorSetting(NEUTRAL_TEMP, <<10, 10, 10>>, 100)

\* the settings a client of the backend passes
Settings ==
    { NeutralSetting, ColorSetting(3750, <<10, 5, 10>>, 50) }

\* The blackbody table: white point per channel in thousandths, sampled
\* every TableStep Kelvin from MIN_TEMP.
TableStep == 5500
BlackbodyTable ==
    << <<1000, 182, 0>>,
       <<1000, 1000, 1000>>,
       <<749, 843, 1000>>,
       <<680, 792, 1000>>,
       <<640, 763, 1000>> >>

\* white point of a temperature: the boundary entries at or beyond the
\* table's ends, linear interpolation per channel between two entries
WhitePoint(temp) ==
    LET n == Len(BlackbodyTable)
        top == MIN_TEMP + (n - 1) * TableStep
    IN  IF temp <= MIN_TEMP THEN BlackbodyTable[1]
        ELSE IF temp >= top THEN BlackbodyTable[n]
        ELSE LET idx == ((temp - MIN_TEMP) \div TableStep) + 1
                 alpha == (temp - MIN_TEMP) % TableStep
             IN  [c \in 1..3 |->
                    ((TableStep - alpha) * BlackbodyTable[idx][c]
                       + alpha * BlackbodyTable[idx + 1][c]) \div TableStep]

\* floor(v * v / 65536) for a 16-bit v, computed in two 8-bit halves
Square16(v) ==
    LET hi == v \div 256
        lo == v % 256
    IN  hi * hi + ((2 * hi * lo * 256 + lo * lo) \div u16_max1)

\* x^(1/gamma) on a sample normalised to 65536: identity at gamma 1.0,
\* the square at gamma 0.5
ApplyGamma(v, gamma) == IF gamma = 5 THEN Square16(v) ELSE v

\* one sample of one channel: white point, gamma exponent, brightness, clamp
FillSample(v, wp, gamma, brightness) ==
    AsU16((ApplyGamma((v * wp) \div 1000, gamma) * brightness) \div 100)

\* colorramp::fill(r, g, b, setting, ramp_size): rewrites the first
\* ramp_size samples of the three buffers in place
fill(ramps, setting, ramp_size) ==
    LET wp == WhitePoint(setting.temp)
    IN  [c \in 1..3 |->
           [i \in 1..Len(ramps[c]) |->
              IF i <= ramp_size
              THEN FillSample(ramps[c][i], wp[c], setting.gamma[c], setting.brightness)
              ELSE ramps[c][i]]]

(* ------------------------------------------------------------------ *)
(* State                                                                *)
(* ------------------------------------------------------------------ *)
VARIABLES
    SUPPORTED_GAMMA_METHODS, \* the names the registry holds (build features)
    srvGammaSize,   \* X server: gamma size of each CRTC, in enumeration order
    hwRamp,         \* X server: the ramps each CRTC currently applies
    method,         \* the backend gamma_state holds: "none", "randr", "dummy"
    connOk,         \* RandrState.conn is usable (an xcb error state is sticky)
    crtcs,          \* RandrState.crtcs
    captured,       \* the ramps the last start() read, per record of crtcs
    started,        \* start() has been called on the backend gamma_state holds
    again,          \* the last call repeated the successful call before it
    ret,            \* what the last call returned
    reqs,           \* the protocol requests the last call issued, in order
    args,           \* std::env::args().skip(1)
    mode,           \* Args.mode after update_from_args
    pc,             \* main's position; "api" for a free client
    exit,           \* how main ended: "running", "Ok", "Err" or "Panic"
    calls           \* main: the backend operations called so far

vars == << SUPPORTED_GAMMA_METHODS, srvGammaSize, hwRamp, method, connOk, crtcs,
           captured, started, again, ret, reqs, args, mode, pc, exit, calls >>

backendVars == << method, connOk, crtcs, captured, started, again, ret, reqs,
                  hwRamp >>

CrtcIds == 1..Len(srvGammaSize)

\* struct Crtc
Crtc(id, ramp_size, saved_ramps, scratch) ==
    [id |-> id, ramp_size |-> ramp_size, saved_ramps |-> saved_ramps,
     scratch |-> scratch]

\* a protocol request (or a flush of the connection) and how it ended:
\* "ok", "error" (the server answered with an error, or the flush failed) or
\* "lost" (it never reached the server)
Req(type, crtc, reply, data) ==
    [type |-> type, crtc |-> crtc, reply |-> reply, data |-> data]

\* What a call returned, with what it was given: `err` is the error value,
\* `setting` the ColorSetting of a set_temperature call, `name` the
\* method_name of an init_gamma_method call, `order` the registry's
\* iteration order in its auto-probe and `tried` the initializers it invoked.
NoSetting == [temp |-> 0, gamma |-> <<0, 0, 0>>, brightness |-> 0]
Result(op, status, kind, major, minor) ==
    [op |-> op, status |-> status,
     err |-> [kind |-> kind, major |-> major, minor |-> minor],
     setting |-> NoSetting, name |-> "", order |-> <<>>, tried |-> <<>>]
Ok(op) == Result(op, "Ok", "", 0, 0)
Err(op, kind) == Result(op, "Err", kind, 0, 0)
Panic(op, kind) == Result(op, "Panic", kind, 0, 0)
\* whether a call of op with this setting repeats the call before it
Again(op, setting) ==
    ret.op = op /\ ret.status = "Ok" /\ ret.setting = setting

\* RandrError::unsupported_version
unsupported_version(major, minor) ==
    Result("init", "Err", "UnsupportedVersion", major, minor)

(* ------------------------------------------------------------------ *)
(* The X server                                                         *)
(* ------------------------------------------------------------------ *)
\* The server applies a SetCrtcGamma request that reaches it unless it
\* answers it with an error: always when the ramp's length is not the CRTC's
\* gamma size, and for the CRTCs in `rejected` (a CRTC that went away, ...).
ServerAccepts(id, ramps, rejected) ==
    /\ id \in CrtcIds
    /\ id \notin rejected
    /\ \A c \in 1..3 : Len(ramps[c]) = srvGammaSize[id]

\* The SetCrtcGamma requests of one call: pushes[k] is the ramp sent for
\* crtcs[k]; the first `sent` of them were issued; the flush after request
\* failAt failed (0: none did). A request reaches the server when the flush
\* that follows it succeeds: a flush fails before it has written the request
\* out.
Reaches(k, failAt) == failAt = 0 \/ k < failAt

PushReply(k, pushes, failAt, rejected) ==
    IF ~Reaches(k, failAt) THEN "lost"
    ELSE IF ServerAccepts(crtcs[k].id, pushes[k], rejected) THEN "ok"
    ELSE "error"

\* a call that issues every SetCrtcGamma request first and flushes once
RECURSIVE PushLogBatched(_, _, _, _, _)
PushLogBatched(k, sent, pushes, failAt, rejected) ==
    IF k > sent
    THEN IF sent = 0 THEN <<>>
         ELSE << Req("flush", 0, IF failAt = 0 THEN "ok" ELSE "error", <<>>) >>
    ELSE << Req("SetCrtcGamma", crtcs[k].id,
                PushReply(k, pushes, failAt, rejected), pushes[k]) >>
         \o PushLogBatched(k + 1, sent, pushes, failAt, rejected)

\* the requests and flushes of such a call, in the order they are issued
RECURSIVE PushLog(_, _, _, _, _)
PushLog(k, sent, pushes, failAt, rejected) ==
    IF k > sent THEN <<>>
    ELSE << Req("SetCrtcGamma", crtcs[k].id,
                PushReply(k, pushes, failAt, rejected), pushes[k]),
            Req("flush", crtcs[k].id, IF k = failAt THEN "error" ELSE "ok", <<>>) >>
         \o PushLog(k + 1, sent, pushes, failAt, rejected)

\* the server's ramps after such a call: the last accepted push per CRTC
HwAfter(sent, pushes, failAt, rejected) ==
    [id \in CrtcIds |->
       LET hits == { k \in 1..sent :
                       /\ crtcs[k].id = id
                       /\ PushReply(k, pushes, failAt, rejected) = "ok" }
       IN  IF hits = {} THEN hwRamp[id]
           ELSE pushes[CHOOSE k \in hits : \A j \in hits : j <= k]]

\* a loop that goes on to the remaining controllers after a failed flush
SentAll(n, failAt) == n

\* the number of controllers the loop of set_crtc_temperatures or restore
\* handles: all n, or those up to the one whose flush()? returns the error
Sent(n, failAt) == IF failAt = 0 THEN n ELSE failAt

\* where a call over n controllers may fail: nowhere or at any of them on a
\* usable connection, at the first one on a broken connection
FailPoints(n) ==
    IF connOk THEN 0..n ELSE IF n = 0 THEN {0} ELSE {1}

\* the CRTCs whose SetCrtcGamma request the server may answer with an error
\* in a call that fails at failAt: none, or one of those whose request
\* reaches it
Rejectable(failAt) ==
    {{}} \cup { {crtcs[k].id} : k \in { j \in 1..Len(crtcs) : Reaches(j, failAt) } }

\* whether the failing request of start() may also break the connection
Breaks(failAt) == IF failAt = 0 THEN {FALSE} ELSE BOOLEAN

(* ------------------------------------------------------------------ *)
(* gamma_randr.rs: RandrState                                           *)
(* ------------------------------------------------------------------ *)
\* a test that compares major and minor each on its own
VersionTooOldComponentwise(major, minor) ==
    major < RANDR_MAJOR_VERSION \/ minor < RANDR_MINOR_VERSION

\* query_version's test of the reply
VersionTooOld(major, minor) ==
    \/ major < RANDR_MAJOR_VERSION
    \/ (major = RANDR_MAJOR_VERSION /\ minor < RANDR_MINOR_VERSION)

\* query_version(conn): the result and the requests issued; failAt names
\* the step that fails ("none" for no failure)
query_version(major, minor, failAt) ==
    IF failAt = "query_reply"
    THEN [ret |-> Err("init", "Generic"),
          reqs |-> << Req("QueryVersion", 0, "error", <<>>) >>]
    ELSE IF VersionTooOld(major, minor)
    THEN [ret |-> unsupported_version(major, minor),
          reqs |-> << Req("QueryVersion", 0, "ok", <<major, minor>>) >>]
    ELSE IF failAt = "query_flush"
    THEN [ret |-> Err("init", "Conn"),
          reqs |-> << Req("QueryVersion", 0, "ok", <<major, minor>>),
                      Req("flush", 0, "error", <<>>) >>]
    ELSE [ret |-> Ok("init"),
          reqs |-> << Req("QueryVersion", 0, "ok", <<major, minor>>),
                      Req("flush", 0, "ok", <<>>) >>]

\* RandrState::init(): connect, query_version, create the dummy window
RandrState_init(major, minor, failAt) ==
    IF failAt = "connect"
    THEN [ret |-> Err("init", "Conn"), reqs |-> <<>>]
    ELSE LET q == query_version(major, minor, failAt)
         IN  IF q.ret.status # "Ok" THEN q
             ELSE IF failAt = "window_flush"
             THEN [ret |-> Err("init", "Conn"),
                   reqs |-> q.reqs \o << Req("CreateWindow", 0, "lost", <<>>),
                                         Req("flush", 0, "error", <<>>) >>]
             ELSE [ret |-> Ok("init"),
                   reqs |-> q.reqs \o << Req("CreateWindow", 0, "ok", <<>>),
                                         Req("flush", 0, "ok", <<>>) >>]

InitFailPoints == {"none", "connect", "query_reply", "query_flush", "window_flush"}

\* the versions a server advertises in its QueryVersion reply
ServerVersions == { <<0, 9>>, <<1, 2>>, <<1, 3>>, <<1, 4>>, <<2, 0>> }

\* a linear ramp value rounded to the nearest integer
LinearValueRounded(i, ramp_size) ==
    IF ramp_size = 0 THEN (IF i = 0 THEN 0 ELSE u16_max1 - 1)
    ELSE AsU16((2 * i * u16_max1 + ramp_size) \div (2 * ramp_size))

\* the linear ramp value of index i (from 0) for a ramp of ramp_size entries:
\* ((i as f64 / ramp_size) * u16_max1) as u16
LinearValue(i, ramp_size) ==
    IF ramp_size = 0 THEN (IF i = 0 THEN 0 ELSE u16_max1 - 1)
    ELSE AsU16((i * u16_max1) \div ramp_size)

\* scratch buffers that keep what the previous call left in them
LinearScratchStale(crtc) == crtc.scratch

\* the scratch buffers of a controller after the linear initialisation
LinearScratch(crtc) ==
    [c \in 1..3 |->
       [j \in 1..Len(crtc.scratch[c]) |-> LinearValue(j - 1, crtc.ramp_size)]]

\* the ramps set_crtc_temperatures computes for a controller: the linear
\* ramp, then colorramp::fill over it
ComputedRamps(crtc, setting) ==
    LET f == fill(LinearScratch(crtc), setting, crtc.ramp_size)
    IN  << f[1] \o <<>>, f[2] \o <<>>, f[3] \o <<>> >>

\* the linear ramps and their fill, tabulated once for the ramp sizes up to
\* MaxRampSize and the settings of Settings
Blank(n) == [i \in 1..n |-> 0]
LinearTable ==
    [n \in 0..MaxRampSize |->
       LET f == LinearScratch(Crtc(0, n, <<>>, << Blank(n), Blank(n), Blank(n) >>))
       IN  << f[1] \o <<>>, f[2] \o <<>>, f[3] \o <<>> >>]
RampTable ==
    [s \in Settings |->
       [n \in 0..MaxRampSize |->
          ComputedRamps(Crtc(0, n, <<>>, << Blank(n), Blank(n), Blank(n) >>), s)]]

\* ComputedRamps(crtc, setting), looked up in the table when the linear
\* ramp of the controller is a tabulated one
NewRamps(crtc, setting) ==
    IF /\ setting \in Settings
       /\ crtc.ramp_size <= MaxRampSize
       /\ LinearScratch(crtc) = LinearTable[crtc.ramp_size]
    THEN RampTable[setting][crtc.ramp_size]
    ELSE ComputedRamps(crtc, setting)

\* an adjustment that keeps the restore target start() stored
SaveRampsKeepBaseline(crtc, ramps) == [crtc EXCEPT !.scratch = ramps]

\* crtc.saved_ramps = (r.clone(), g.clone(), b.clone()), r, g and b being
\* the scratch buffers, which hold `ramps`
SaveRamps(crtc, ramps) ==
    [crtc EXCEPT !.scratch = ramps, !.saved_ramps = ramps]

\* the controller record after set_crtc_temperatures has handled it
AdjustedCrtc(crtc, setting) == SaveRamps(crtc, NewRamps(crtc, setting))

\* RandrState::set_crtc_temperatures(setting)
set_crtc_temperatures(setting, failAt, rejected) ==
    LET n == Len(crtcs)
        sent == Sent(n, failAt)
        \* the request carries the scratch buffers as they are now
        pushes == [k \in 1..n |-> crtcs'[k].scratch]
    IN  /\ method = "randr"
        /\ failAt \in FailPoints(n)
        /\ crtcs' = [k \in 1..n |->
                       IF k <= sent THEN AdjustedCrtc(crtcs[k], setting)
                       ELSE crtcs[k]]
        /\ hwRamp' = HwAfter(sent, pushes, failAt, rejected)
        /\ reqs' = PushLog(1, sent, pushes, failAt, rejected)
        /\ connOk' = (connOk /\ failAt = 0)
        /\ again' = Again("set_temperature", setting)
        /\ ret' = [(IF failAt = 0 THEN Ok("set_temperature")
                    ELSE Err("set_temperature", "Conn")) EXCEPT !.setting = setting]
        /\ UNCHANGED << method, captured, started >>

\* a restore that reads the ramps back from the server instead of replaying
\* the stored ones
RestoreRampsRequeried(crtc) == hwRamp[crtc.id]

\* the ramps restore() sends for a controller: red, green and blue of
\* crtc.saved_ramps
RestoreRamps(crtc) == crtc.saved_ramps

\* RandrState::restore()
restore(failAt, rejected) ==
    LET n == Len(crtcs)
        sent == Sent(n, failAt)
        pushes == [k \in 1..n |-> RestoreRamps(crtcs[k])]
    IN  /\ method = "randr"
        /\ failAt \in FailPoints(n)
        /\ hwRamp' = HwAfter(sent, pushes, failAt, rejected)
        /\ reqs' = PushLog(1, sent, pushes, failAt, rejected)
        /\ connOk' = (connOk /\ failAt = 0)
        /\ ret' = IF failAt = 0 THEN Ok("restore") ELSE Err("restore", "Conn")
        /\ again' = Again("restore", NoSetting)
        /\ UNCHANGED << method, crtcs, captured, started >>

\* start(): where it may fail. 0: nowhere; 1: GetScreenResources;
\* 2k: GetCrtcGammaSize of the k-th CRTC; 2k + 1: its GetCrtcGamma.
StartFailPoints ==
    IF connOk THEN 0..(2 * Len(srvGammaSize) + 1) ELSE {1}

\* a count that takes the controller whose read failed for a read one
StartReadCountsFailing(failAt) ==
    IF failAt = 0 THEN Len(srvGammaSize)
    ELSE IF failAt = 1 THEN 0
    ELSE failAt \div 2

\* the number of CRTCs start() has read completely when it fails at failAt
StartRead(failAt) ==
    IF failAt = 0 THEN Len(srvGammaSize)
    ELSE IF failAt = 1 THEN 0
    ELSE (failAt \div 2) - 1

\* a start() that pushes a controller's record before its reads are done
StartKeptUnread(failAt) ==
    IF failAt <= 1 THEN StartRead(failAt) ELSE StartRead(failAt) + 1

\* the number of records start() has pushed when it fails at failAt: the
\* push follows both reads of the controller
StartKept(failAt) == StartRead(failAt)

\* a start() that appends to the collection it finds
StartBaseAppend(old) == old

\* self.crtcs = Vec::with_capacity(..): the collection start() pushes onto
StartBase(old) == <<>>

\* a start() that leaves the scratch buffers unallocated
StartScratchEmpty(ramps) == << <<>>, <<>>, <<>> >>

\* scratch: (red.clone(), green.clone(), blue.clone())
StartScratch(ramps) == ramps

\* the requests start() issues for the CRTCs from k on
RECURSIVE StartLog(_, _)
StartLog(k, failAt) ==
    IF k > Len(srvGammaSize) THEN <<>>
    ELSE IF failAt = 2 * k
    THEN << Req("GetCrtcGammaSize", k, "error", <<>>) >>
    ELSE IF failAt = 2 * k + 1
    THEN << Req("GetCrtcGammaSize", k, "ok", <<srvGammaSize[k]>>),
            Req("GetCrtcGamma", k, "error", <<>>) >>
    ELSE << Req("GetCrtcGammaSize", k, "ok", <<srvGammaSize[k]>>),
            Req("GetCrtcGamma", k, "ok", hwRamp[k]) >>
         \o StartLog(k + 1, failAt)

\* RandrState::start(): `breaks` tells whether the failing request also
\* broke the connection
start(failAt, breaks) ==
    LET read == StartRead(failAt)
    IN  /\ method = "randr"
        /\ failAt \in StartFailPoints
        /\ IF failAt = 1
           THEN /\ reqs' = << Req("GetScreenResources", 0, "error", <<>>) >>
                /\ UNCHANGED << crtcs, captured >>
           ELSE /\ reqs' = << Req("GetScreenResources", 0, "ok", <<>>) >>
                              \o StartLog(1, failAt)
                /\ crtcs' = StartBase(crtcs) \o
                            [k \in 1..StartKept(failAt) |->
                               Crtc(k, srvGammaSize[k], hwRamp[k],
                                    StartScratch(hwRamp[k]))]
                /\ captured' = [k \in 1..read |-> hwRamp[k]]
        /\ connOk' = (connOk /\ ~(failAt # 0 /\ breaks))
        /\ ret' = IF failAt = 0 THEN Ok("start") ELSE Err("start", "Generic")
        /\ again' = Again("start", NoSetting)
        /\ started' = TRUE
        /\ UNCHANGED << method, hwRamp >>

(* ------------------------------------------------------------------ *)
(* gamma/mod.rs: DummyMethod                                            *)
(* ------------------------------------------------------------------ *)
\* DummyMethod::start, set_temperature and restore: print, return Ok(())
DummyMethod(op, setting) ==
    /\ method = "dummy"
    /\ ret' = [Ok(op) EXCEPT !.setting = setting]
    /\ reqs' = <<>>
    /\ again' = Again(op, setting)
    /\ started' = (started \/ op = "start")
    /\ UNCHANGED << method, connOk, crtcs, captured, hwRamp >>

(* ------------------------------------------------------------------ *)
(* gamma/mod.rs: the registry and init_gamma_method                     *)
(* ------------------------------------------------------------------ *)
\* no method name requested (None)
NoName == "<none>"

\* the orders in which a HashMap with these keys may iterate
Orders(keys) ==
    { o \in [1..Cardinality(keys) -> keys] :
        \A i, j \in 1..Cardinality(keys) : i # j => o[i] # o[j] }

\* the initializer registered under a name: gamma_randr::init or init_dummy
Initializer(name, randr) ==
    IF name = "randr" THEN randr
    ELSE [ret |-> Ok("init"), reqs |-> <<>>]

\* an initializer that was invoked, and what it returned
Tried(name, r) == [name |-> name, status |-> r.ret.status, err |-> r.ret.err]

\* SUPPORTED_GAMMA_METHODS[m]: the entry found under m; indexing a HashMap
\* by a key it does not hold panics
KeyMissing == "<panic>"

\* a lookup that falls back to the dummy for a key the registry does not hold
RegistryIndexOrDummy(m) ==
    IF m \in SUPPORTED_GAMMA_METHODS THEN m ELSE "dummy"

RegistryIndex(m) ==
    IF m \in SUPPORTED_GAMMA_METHODS THEN m ELSE KeyMissing

\* an auto-probe that does not skip the dummy
RECURSIVE ProbeWithDummy(_, _, _, _)
ProbeWithDummy(order, i, randr, tried) ==
    IF i > Len(order)
    THEN [found |-> "none", tried |-> tried]
    ELSE LET r == Initializer(order[i], randr)
         IN  IF r.ret.status = "Ok"
             THEN [found |-> order[i], tried |-> Append(tried, Tried(order[i], r))]
             ELSE ProbeWithDummy(order, i + 1, randr, Append(tried, Tried(order[i], r)))

\* the filter_map(..).take(1).next() of the auto-probe over `order` from
\* position i: the first entry that is not the dummy and whose initializer
\* succeeds; `tried` collects the initializers invoked on the way
RECURSIVE Probe(_, _, _, _)
Probe(order, i, randr, tried) ==
    IF i > Len(order)
    THEN [found |-> "none", tried |-> tried]
    ELSE IF order[i] = "dummy"
    THEN Probe(order, i + 1, randr, tried)
    ELSE LET r == Initializer(order[i], randr)
         IN  IF r.ret.status = "Ok"
             THEN [found |-> order[i], tried |-> Append(tried, Tried(order[i], r))]
             ELSE Probe(order, i + 1, randr, Append(tried, Tried(order[i], r)))

\* a constructor that lists the server's CRTCs without reading them
InitialCrtcsEnumerated ==
    [k \in 1..Len(srvGammaSize) |->
       Crtc(k, 0, << <<>>, <<>>, <<>> >>, << <<>>, <<>>, <<>> >>)]

\* crtcs: vec![] of the RandrState that RandrState::init builds
InitialCrtcs == <<>>

\* init_gamma_method(method_name): `order` is the registry's iteration
\* order, `randr` the outcome of gamma_randr::init() should it be invoked
init_gamma_method(method_name, order, randr) ==
    /\ method = "none"
    /\ order \in Orders(SUPPORTED_GAMMA_METHODS)
    /\ IF method_name # NoName
       THEN LET m == RegistryIndex(method_name)
                r == Initializer(m, randr)
            IN  IF m = KeyMissing
                THEN /\ ret' = [Panic("init", "KeyNotFound") EXCEPT !.name = method_name]
                     /\ reqs' = <<>>
                     /\ UNCHANGED << method, connOk >>
                ELSE /\ ret' = [r.ret EXCEPT !.name = method_name,
                                            !.tried = << Tried(m, r) >>]
                     /\ reqs' = r.reqs
                     /\ method' = IF r.ret.status = "Ok" THEN m ELSE "none"
                     /\ connOk' = (r.ret.status = "Ok" /\ m = "randr")
       ELSE LET p == Probe(order, 1, randr, <<>>)
            IN  /\ method' = p.found
                /\ ret' = [(IF p.found = "none"
                            THEN Err("init", "No gamma adjustment method available")
                            ELSE Ok("init"))
                           EXCEPT !.name = NoName, !.order = order, !.tried = p.tried]
                /\ reqs' = IF \E i \in 1..Len(p.tried) : p.tried[i].name = "randr"
                           THEN randr.reqs ELSE <<>>
                /\ connOk' = (p.found = "randr")
    /\ crtcs' = InitialCrtcs
    /\ started' = FALSE
    /\ again' = FALSE
    /\ UNCHANGED << captured, hwRamp >>

(* ------------------------------------------------------------------ *)
(* main.rs: Args::update_from_args                                      *)
(* ------------------------------------------------------------------ *)
\* A command-line argument is the sequence of its characters.
Digits == << "0", "1", "2", "3", "4", "5", "6", "7", "8", "9" >>
IsDigit(ch) == \E d \in 1..10 : Digits[d] = ch
DigitVal(ch) == (CHOOSE d \in 1..10 : Digits[d] = ch) - 1

I32_MIN == -I32_MAX - 1

\* str::parse::<i32>: the digits of tok from position i on, accumulated
\* into acc with checked arithmetic (downwards for a negative number)
RECURSIVE ParseDigits(_, _, _, _)
ParseDigits(tok, i, acc, neg) ==
    IF i > Len(tok) THEN [ok |-> TRUE, val |-> acc]
    ELSE IF ~IsDigit(tok[i]) THEN [ok |-> FALSE, val |-> 0]
    ELSE LET d == DigitVal(tok[i])
         IN  IF neg
             THEN IF acc < (I32_MIN + d + 9) \div 10
                  THEN [ok |-> FALSE, val |-> 0]
                  ELSE ParseDigits(tok, i + 1, acc * 10 - d, neg)
             ELSE IF acc > (I32_MAX - d) \div 10
                  THEN [ok |-> FALSE, val |-> 0]
                  ELSE ParseDigits(tok, i + 1, acc * 10 + d, neg)

\* str::parse::<i32>: an optional sign, then at least one digit
ParseI32(tok) ==
    IF Len(tok) = 0 THEN [ok |-> FALSE, val |-> 0]
    ELSE IF tok[1] \in {"+", "-"}
    THEN IF Len(tok) = 1 THEN [ok |-> FALSE, val |-> 0]
         ELSE ParseDigits(tok, 2, 0, tok[1] = "-")
    ELSE ParseDigits(tok, 1, 0, FALSE)

OptH == << "-", "h" >>
OptHelp == << "-", "-", "h", "e", "l", "p" >>
OptV == << "-", "V" >>
OptVersion == << "-", "-", "v", "e", "r", "s", "i", "o", "n" >>
OptS == << "-", "S" >>
OptSet == << "-", "-", "S", "e", "t" >>
OptX == << "-", "x" >>
OptReset == << "-", "-", "r", "e", "s", "e", "t" >>

\* enum Mode
Manual(t) == [kind |-> "Manual", temp |-> t]
Reset == [kind |-> "Reset", temp |-> 0]

\* Args::defaults()
defaults == [help |-> FALSE, version |-> FALSE, method |-> NoName,
             mode |-> Manual(NEUTRAL_TEMP)]

Parsed(status, a) == [status |-> status, args |-> a]

\* a parser that takes the -S temperature without the range check
update_from_args_unchecked(a) ==
    IF Len(a) = 0 THEN Parsed("Panic", defaults)
    ELSE IF a[1] \in {OptH, OptHelp}
    THEN Parsed("Ok", [defaults EXCEPT !.help = TRUE])
    ELSE IF a[1] \in {OptV, OptVersion}
    THEN Parsed("Ok", [defaults EXCEPT !.version = TRUE])
    ELSE IF a[1] \in {OptS, OptSet}
    THEN IF Len(a) < 2 THEN Parsed("Err", defaults)
         ELSE LET t == ParseI32(a[2])
              IN  IF ~t.ok THEN Parsed("Panic", defaults)
                  ELSE Parsed("Ok", [defaults EXCEPT !.mode = Manual(t.val)])
    ELSE IF a[1] \in {OptX, OptReset}
    THEN Parsed("Ok", [defaults EXCEPT !.mode = Reset])
    ELSE Parsed("Ok", defaults)

\* Args::defaults().update_from_args() on the argument list a
update_from_args(a) ==
    IF Len(a) = 0 THEN Parsed("Panic", defaults)          \* args[0]
    ELSE IF a[1] \in {OptH, OptHelp}
    THEN Parsed("Ok", [defaults EXCEPT !.help = TRUE])
    ELSE IF a[1] \in {OptV, OptVersion}
    THEN Parsed("Ok", [defaults EXCEPT !.version = TRUE])
    ELSE IF a[1] \in {OptS, OptSet}
    THEN IF Len(a) < 2 THEN Parsed("Err", defaults)
         ELSE LET t == ParseI32(a[2])
              IN  IF ~t.ok THEN Parsed("Panic", defaults)  \* unwrap()
                  ELSE IF ~(MIN_TEMP <= t.val /\ t.val <= MAX_TEMP)
                  THEN Parsed("Err", defaults)
                  ELSE Parsed("Ok", [defaults EXCEPT !.mode = Manual(t.val)])
    ELSE IF a[1] \in {OptX, OptReset}
    THEN Parsed("Ok", [defaults EXCEPT !.mode = Reset])
    ELSE Parsed("Ok", defaults)

\* the -S arguments a user gives
TempTokens ==
    { << "9", "9", "9" >>, << "1", "0", "0", "0" >>, << "3", "7", "5", "0" >>,
      << "6", "5", "0", "0" >>, << "2", "5", "0", "0", "0" >>,
      << "2", "5", "0", "0", "1" >>, << "+", "3", "7", "5", "0" >>,
      << "-", "5" >>, << "0" >>, << "w", "a", "r", "m" >>, << >>,
      << "2", "1", "4", "7", "4", "8", "3", "6", "4", "7" >>,
      << "2", "1", "4", "7", "4", "8", "3", "6", "4", "8" >>,
      << "-", "2", "1", "4", "7", "4", "8", "3", "6", "4", "8" >>,
      << "-", "2", "1", "4", "7", "4", "8", "3", "6", "4", "9" >> }

\* the command lines a user gives
ArgLines ==
    { << >>, << OptH >>, << OptHelp >>, << OptV >>, << OptVersion >>,
      << OptS >>, << OptSet >>, << OptX >>, << OptReset >>,
      << << "-", "m" >>, << "d", "u", "m", "m", "y" >> >> }
    \cup { << o, t >> : o \in {OptS, OptSet}, t \in TempTokens }

(* ------------------------------------------------------------------ *)
(* Initial states                                                       *)
(* ------------------------------------------------------------------ *)
\* the registry with and without the "randr" build feature
Registries == { {"randr", "dummy"}, {"dummy"} }

\* an X server with up to MaxCrtcs CRTCs, and no backend constructed yet
InitWorld ==
    /\ SUPPORTED_GAMMA_METHODS \in Registries
    /\ \E n \in 0..MaxCrtcs :
         /\ srvGammaSize \in [1..n -> RampSizes]
         /\ hwRamp = [id \in 1..n |-> BaselineRamp(id, srvGammaSize[id])]
    /\ method = "none"
    /\ connOk = FALSE
    /\ crtcs = <<>>
    /\ captured = <<>>
    /\ started = FALSE
    /\ again = FALSE
    /\ ret = Ok("none")
    /\ reqs = <<>>
    /\ mode = defaults.mode
    /\ exit = "running"
    /\ calls = <<>>

Init ==
    /\ InitWorld
    /\ args = <<>>
    /\ pc = "api"

InitMain ==
    /\ InitWorld
    /\ args \in ArgLines
    /\ pc = "parse"

(* ------------------------------------------------------------------ *)
(* A free client of the GammaMethod interface                           *)
(* ------------------------------------------------------------------ *)
mainVars == << args, mode, pc, exit, calls >>
worldVars == << SUPPORTED_GAMMA_METHODS, srvGammaSize >>

\* the method names a client requests
MethodNames == {NoName, "randr", "dummy", "vidmode"}

\* gamma::init_gamma_method(name)
Construct ==
    /\ pc = "api"
    /\ method = "none"
    /\ \E name \in MethodNames, order \in Orders(SUPPORTED_GAMMA_METHODS),
          v \in ServerVersions, f \in InitFailPoints :
         init_gamma_method(name, order, RandrState_init(v[1], v[2], f))
    /\ UNCHANGED << mainVars, worldVars >>

\* gamma_state.start()
Start ==
    /\ pc = "api"
    /\ method # "none"
    /\ \/ \E f \in StartFailPoints : \E breaks \in Breaks(f) : start(f, breaks)
       \/ DummyMethod("start", NoSetting)
    /\ UNCHANGED << mainVars, worldVars >>

\* gamma_state.set_temperature(&setting)
SetTemperature ==
    /\ pc = "api"
    /\ method # "none"
    /\ \E setting \in Settings :
         \/ \E f \in FailPoints(Len(crtcs)) : \E rejected \in Rejectable(f) :
              set_crtc_temperatures(setting, f, rejected)
         \/ DummyMethod("set_temperature", setting)
    /\ UNCHANGED << mainVars, worldVars >>

\* gamma_state.restore()
Restore ==
    /\ pc = "api"
    /\ method # "none"
    /\ \/ \E f \in FailPoints(Len(crtcs)) : \E rejected \in Rejectable(f) :
            restore(f, rejected)
       \/ DummyMethod("restore", NoSetting)
    /\ UNCHANGED << mainVars, worldVars >>

Next == Construct \/ Start \/ SetTemperature \/ Restore

Spec == Init /\ [][Next]_vars

(* ------------------------------------------------------------------ *)
(* main.rs: main                                                        *)
(* ------------------------------------------------------------------ *)
\* a main that goes on whatever the call returned
PropagateIgnoringErrors(next) ==
    /\ pc' = next
    /\ exit' = exit

\* a `?` on the result of the call just made: go on, or end main with it
Propagate(next) ==
    /\ pc' = IF ret'.status = "Ok" THEN next ELSE "done"
    /\ exit' = IF ret'.status = "Ok" THEN exit ELSE ret'.status

\* let args = Args::defaults().update_from_args()?; and the help and
\* version exits
MainArgs ==
    /\ pc = "parse"
    /\ LET p == update_from_args(args)
       IN  IF p.status # "Ok"
           THEN /\ pc' = "done" /\ exit' = p.status /\ UNCHANGED mode
           ELSE IF p.args.help \/ p.args.version
           THEN /\ pc' = "done" /\ exit' = "Ok" /\ UNCHANGED mode
           ELSE /\ pc' = "init" /\ mode' = p.args.mode /\ UNCHANGED exit
    /\ UNCHANGED << backendVars, worldVars, args, calls >>

\* gamma::init_gamma_method(args.method.as_deref())?
MainInit ==
    /\ pc = "init"
    /\ \E order \in Orders(SUPPORTED_GAMMA_METHODS),
          v \in ServerVersions, f \in InitFailPoints :
         init_gamma_method(defaults.method, order, RandrState_init(v[1], v[2], f))
    /\ calls' = Append(calls, "init")
    /\ Propagate("start")
    /\ UNCHANGED << worldVars, args, mode >>

\* gamma_state.start()?
MainStart ==
    /\ pc = "start"
    /\ \/ \E f \in StartFailPoints : \E breaks \in Breaks(f) : start(f, breaks)
       \/ DummyMethod("start", NoSetting)
    /\ calls' = Append(calls, "start")
    /\ Propagate("set")
    /\ UNCHANGED << worldVars, args, mode >>

\* the ColorSetting main builds for a mode
ModeSetting(m) ==
    IF m.kind = "Reset" THEN ColorSetting(NEUTRAL_TEMP, <<10, 10, 10>>, 100)
    ELSE ColorSetting(m.temp, <<10, 10, 10>>, 100)

\* a main that calls restore() in reset mode
MainApplyRestore(m) ==
    IF m.kind = "Reset"
    THEN \/ \E f \in FailPoints(Len(crtcs)) : \E rejected \in Rejectable(f) :
              restore(f, rejected)
         \/ DummyMethod("restore", NoSetting)
    ELSE \/ \E f \in FailPoints(Len(crtcs)) : \E rejected \in Rejectable(f) :
              set_crtc_temperatures(ModeSetting(m), f, rejected)
         \/ DummyMethod("set_temperature", ModeSetting(m))

\* the operation main applies to the started backend, per mode
MainApply(m) ==
    \/ \E f \in FailPoints(Len(crtcs)) : \E rejected \in Rejectable(f) :
         set_crtc_temperatures(ModeSetting(m), f, rejected)
    \/ DummyMethod("set_temperature", ModeSetting(m))

\* gamma_state.set_temperature(&color_setting)?; Ok(())
MainSetTemperature ==
    /\ pc = "set"
    /\ MainApply(mode)
    /\ calls' = Append(calls, ret'.op)
    /\ pc' = "done"
    /\ exit' = ret'.status
    /\ UNCHANGED << worldVars, args, mode >>

NextMain == MainArgs \/ MainInit \/ MainStart \/ MainSetTemperature

SpecMain == InitMain /\ [][NextMain]_vars

(* ------------------------------------------------------------------ *)
(* Properties                                                           *)
(* ------------------------------------------------------------------ *)
\* the ramps the k-th SetCrtcGamma request of the last call carried
Pushed(log, k) == log[2 * k - 1].data

\* every request and flush of a call went through
AllAnswered(log) == \A i \in 1..Len(log) : log[i].reply = "ok"

\* a RandR backend whose start() read every CRTC of the server
Started == method = "randr" /\ Len(crtcs) = Len(srvGammaSize)

\* a managed controller with a ramp that is not empty
SomeRamp == \E k \in 1..Len(crtcs) : crtcs[k].ramp_size > 0

\* C1: round trip. On a backend whose start() succeeded, a successful
\* restore() that follows a successful set_temperature() sends to every
\* managed controller exactly the ramps start() captured for it.
C1_RestoreReproducesStartRamps ==
    [][ ( /\ Started
          /\ ret.op = "set_temperature" /\ ret.status = "Ok"
          /\ ret'.op = "restore" /\ ret'.status = "Ok" )
        => \A k \in 1..Len(crtcs) : Pushed(reqs', k) = captured[k] ]_vars

\* C2: saved_ramps is immutable after start(). Every managed controller's
\* saved_ramps is the value start() stored for it, whatever set_temperature()
\* and restore() calls followed.
C2_SavedRampsImmutable ==
    method = "randr" =>
        \A k \in 1..Len(crtcs) : crtcs[k].saved_ramps = captured[k]

\* C3: restore() is idempotent and safe without a prior adjustment. A
\* restore() never changes the backend state (controller list, saved_ramps,
\* scratch); when its requests go through it returns Ok, sends every managed
\* controller its saved_ramps and leaves the hardware holding them; a second
\* restore() right after such a restore() leaves the hardware as the first
\* one left it; and a restore() right after a successful start() sends the
\* ramps start() captured. The dummy's restore() returns Ok and touches
\* nothing.
C3_RestoreIdempotent ==
    [][ ret'.op = "restore" =>
          /\ crtcs' = crtcs /\ captured' = captured /\ method' = method
          /\ method = "dummy" => (ret'.status = "Ok" /\ hwRamp' = hwRamp)
          /\ (method = "randr" /\ AllAnswered(reqs')) =>
               /\ ret'.status = "Ok"
               /\ Len(reqs') = 2 * Len(crtcs)
               /\ \A k \in 1..Len(crtcs) :
                    /\ Pushed(reqs', k) = crtcs[k].saved_ramps
                    /\ hwRamp'[crtcs[k].id] = crtcs[k].saved_ramps
               /\ (ret.op = "restore" /\ ret.status = "Ok" /\ AllAnswered(reqs))
                    => hwRamp' = hwRamp
               /\ (ret.op = "start" /\ ret.status = "Ok")
                    => \A k \in 1..Len(crtcs) : Pushed(reqs', k) = captured[k]
      ]_vars

\* C3 witness: a second restore() in a row went through on two controllers,
\* one of them with a ramp, with no adjustment since start()
C3_Witness ==
    /\ method = "randr" /\ ret.op = "restore" /\ ret.status = "Ok" /\ again
    /\ AllAnswered(reqs) /\ Len(crtcs) = 2 /\ SomeRamp
    /\ \A k \in 1..Len(crtcs) :
         hwRamp[crtcs[k].id] = captured[k] /\ crtcs[k].saved_ramps = captured[k]

\* the linear ramp of n entries, and the ramps of a setting over it: a
\* function of the setting and the ramp size alone
LinearRamp(n) == [i \in 1..n |-> LinearValue(i - 1, n)]
ExpectedRamps(setting, n) ==
    LET f == fill(<< LinearRamp(n), LinearRamp(n), LinearRamp(n) >>, setting, n)
    IN  << f[1] \o <<>>, f[2] \o <<>>, f[3] \o <<>> >>

\* C4: set_temperature calls do not compose. The ramps a set_temperature(s)
\* call sends to a controller are a function of s and the controller's ramp
\* size: whatever calls came before and whatever the scratch buffers held.
C4_RampDependsOnSettingAndSize ==
    (method = "randr" /\ ret.op = "set_temperature") =>
        \A k \in 1..(Len(reqs) \div 2) :
            Pushed(reqs, k) = ExpectedRamps(ret.setting, crtcs[k].ramp_size)

\* C4 witness: the same setting applied twice in a row to two controllers
\* whose hardware ramps differ from what was sent
C4_Witness ==
    /\ method = "randr" /\ ret.op = "set_temperature" /\ ret.status = "Ok"
    /\ again /\ ret.setting # NeutralSetting
    /\ Len(crtcs) = 2 /\ \A k \in 1..2 : crtcs[k].ramp_size > 0
    /\ \E k \in 1..2 : hwRamp[crtcs[k].id] # Pushed(reqs, k)

\* C5 as claimed: an init_gamma_method call with a name the registry does
\* not hold returns an error value.
C5_UnregisteredNameIsError ==
    (ret.op = "init" /\ ret.name \notin SUPPORTED_GAMMA_METHODS \cup {NoName})
        => ret.status = "Err"

\* C5: an init_gamma_method call with a name the registry does not hold
\* panics; it returns no value, invokes no initializer, issues no request and
\* leaves no backend (the dummy included) constructed.
C5_UnregisteredNamePanics ==
    (ret.op = "init" /\ ret.name \notin SUPPORTED_GAMMA_METHODS \cup {NoName})
        => /\ ret.status = "Panic"
           /\ method = "none"
           /\ ret.tried = <<>>
           /\ reqs = <<>>

\* C5 witness: "vidmode" was requested of a registry that does not hold it
C5_Witness ==
    /\ ret.op = "init" /\ ret.name = "vidmode"
    /\ "vidmode" \notin SUPPORTED_GAMMA_METHODS
    /\ ret.status = "Panic"

NotDummy(name) == name # "dummy"
Names(tried) == [i \in 1..Len(tried) |-> tried[i].name]

\* C6: the auto-probe never invokes or returns the dummy. It invokes the
\* initializers that are not the dummy's in iteration order up to the first
\* one that succeeds and returns that one's backend; when all of them fail
\* it returns the error "No gamma adjustment method available"; and the
\* dummy is constructed only when "dummy" is requested by name.
C6_AutoProbeSkipsDummy ==
    ret.op = "init" =>
      /\ method = "dummy" => ret.name = "dummy"
      /\ ret.name = NoName =>
           LET real == SelectSeq(ret.order, NotDummy)
               t == ret.tried
           IN  /\ \A i \in 1..Len(t) : t[i].name # "dummy"
               /\ Len(t) <= Len(real)
               /\ Names(t) = SubSeq(real, 1, Len(t))
               /\ \A i \in 1..(Len(t) - 1) : t[i].status # "Ok"
               /\ IF Len(t) > 0 /\ t[Len(t)].status = "Ok"
                  THEN ret.status = "Ok" /\ method = t[Len(t)].name
                  ELSE /\ Len(t) = Len(real)
                       /\ ret.status = "Err"
                       /\ ret.err.kind = "No gamma adjustment method available"
                       /\ method = "none"

\* C6 witness: the registry iterates the dummy first, the auto-probe passes
\* over it and RandR's initializer fails
C6_Witness ==
    /\ ret.op = "init" /\ ret.name = NoName
    /\ Len(ret.order) = 2 /\ ret.order[1] = "dummy"
    /\ ret.status = "Err" /\ Len(ret.tried) = 1

\* (major, minor) is at least (1, 3) in lexicographic order
AtLeastMinimum(v) == v[1] > 1 \/ (v[1] = 1 /\ v[2] >= 3)

\* C7: version negotiation. When RandrState::init receives the server's
\* QueryVersion reply, it goes on past the version check if and only if the
\* advertised version is at least (1, 3) lexicographically; otherwise it
\* fails with UnsupportedVersion carrying the server's major and minor, and
\* QueryVersion stays the only request issued.
C7_VersionNegotiation ==
    ret.op = "init" =>
      \A i \in 1..Len(ret.tried) :
        (ret.tried[i].name = "randr" /\ reqs # <<>> /\ reqs[1].reply = "ok") =>
          LET v == reqs[1].data
          IN  IF AtLeastMinimum(v)
              THEN /\ ret.tried[i].err.kind # "UnsupportedVersion"
                   /\ Len(reqs) >= 2
              ELSE /\ ret.tried[i].status = "Err"
                   /\ ret.tried[i].err =
                        [kind |-> "UnsupportedVersion", major |-> v[1], minor |-> v[2]]
                   /\ Len(reqs) = 1
                   /\ method = "none"

\* C7 witness: a server advertising 0.9 (older major, larger minor) was
\* refused with its version in the error
C7_Witness ==
    /\ ret.op = "init" /\ ret.name = "randr"
    /\ ret.err = [kind |-> "UnsupportedVersion", major |-> 0, minor |-> 9]
    /\ Len(reqs) = 1 /\ reqs[1].type = "QueryVersion"

\* C8: request errors are fatal to the enclosing call. Whenever a request of
\* start(), set_temperature() or restore() fails or is answered with an
\* error (a SetCrtcGamma request included), the call returns an error.
C8_RequestErrorsAreFatal ==
    ( /\ ret.op \in {"start", "set_temperature", "restore"}
      /\ \E i \in 1..Len(reqs) : reqs[i].reply = "error" )
        => ret.status = "Err"

\* main ran to its end in reset mode on a started RandR backend, and every
\* request of its last call went through
ResetRunDone ==
    /\ pc = "done" /\ exit = "Ok" /\ mode.kind = "Reset"
    /\ method = "randr" /\ Len(calls) = 3 /\ AllAnswered(reqs)

\* C9 as claimed: in reset mode the program calls restore() on the started
\* backend, and the hardware ramps at the end of the run are the ramps
\* start() captured.
C9_ResetCallsRestore ==
    ResetRunDone =>
      /\ calls[3] = "restore"
      /\ \A k \in 1..Len(crtcs) : hwRamp[crtcs[k].id] = captured[k]

\* C9: in reset mode the program never calls restore(). After start() it
\* calls set_temperature() once with the neutral setting (6500K, gamma 1.0,
\* brightness 1.0), and a run whose requests all went through ends with
\* every controller's hardware ramp being the ramp that call pushed for it.
C9_ResetSetsNeutral ==
    mode.kind = "Reset" =>
      /\ \A i \in 1..Len(calls) : calls[i] # "restore"
      /\ Len(calls) = 3 =>
           /\ calls = << "init", "start", "set_temperature" >>
           /\ ret.op = "set_temperature"
           /\ ret.setting = NeutralSetting
      /\ ResetRunDone =>
           \A k \in 1..Len(crtcs) :
             hwRamp[crtcs[k].id] = Pushed(reqs, k)

\* C9 witness: a reset run ended on a controller whose hardware ramp is no
\* longer the one start() captured
C9_Witness ==
    /\ ResetRunDone
    /\ Len(crtcs) >= 1
    /\ crtcs[1].ramp_size = MaxRampSize
    /\ hwRamp[crtcs[1].id] # captured[1]

\* the command line is -S/--Set with an i32 outside [MIN_TEMP, MAX_TEMP]
OutOfRangeSet ==
    /\ Len(args) >= 2
    /\ args[1] \in {OptS, OptSet}
    /\ ParseI32(args[2]).ok
    /\ ParseI32(args[2]).val < MIN_TEMP \/ ParseI32(args[2]).val > MAX_TEMP

PushCall == method = "randr" /\ ret.op \in {"set_temperature", "restore"}

\* C11: every hardware-mutating request is flushed before the call returns.
\* In set_temperature() and restore() each SetCrtcGamma request is followed
\* at once by a flush, before the next controller's request, and when the
\* call returns Ok every controller's request was issued and its flush
\* succeeded.
C11_EveryWriteFlushed ==
    PushCall =>
      /\ \A i \in 1..Len(reqs) :
           reqs[i].type = "SetCrtcGamma" =>
             /\ i < Len(reqs)
             /\ reqs[i + 1].type = "flush"
             /\ reqs[i + 1].crtc = reqs[i].crtc
             /\ ret.status = "Ok" => reqs[i + 1].reply = "ok"
      /\ \A i \in 1..Len(reqs) :
           reqs[i].type = "flush" => (i > 1 /\ reqs[i - 1].type = "SetCrtcGamma")
      /\ ret.status = "Ok" => Len(reqs) = 2 * Len(crtcs)

\* C11 witness: a set_temperature() over two controllers returned Ok
C11_Witness ==
    /\ PushCall /\ ret.op = "set_temperature" /\ ret.status = "Ok"
    /\ Len(crtcs) = 2 /\ Len(reqs) = 4
    /\ reqs[1].type = "SetCrtcGamma" /\ reqs[3].type = "SetCrtcGamma"

\* C12: partial failure of set_temperature over M controllers. When the call
\* fails while adjusting controller N (the flush after its request returns
\* the error), the requests of controllers 1..N-1 were flushed and those the
\* server accepted leave the hardware holding the new ramp; the hardware
\* ramps of controllers N..M are what they were before the call; no request
\* is issued for a controller after N and the records after N are
\* untouched; nothing is rolled back.
C12_PartialFailure ==
    [][ (method = "randr" /\ ret'.op = "set_temperature" /\ ret'.status = "Err") =>
          LET N == Len(reqs') \div 2
              M == Len(crtcs)
          IN  /\ 1 <= N /\ N <= M /\ Len(reqs') = 2 * N
              /\ reqs'[2 * N].type = "flush" /\ reqs'[2 * N].reply = "error"
              /\ \A k \in 1..(N - 1) :
                   /\ reqs'[2 * k].reply = "ok"
                   /\ reqs'[2 * k - 1].reply = "ok" =>
                        hwRamp'[crtcs[k].id] = Pushed(reqs', k)
              /\ \A k \in N..M : hwRamp'[crtcs[k].id] = hwRamp[crtcs[k].id]
              /\ \A k \in (N + 1)..M : crtcs'[k] = crtcs[k]
              /\ \A i \in 1..Len(reqs') :
                   \E k \in 1..N : reqs'[i].crtc = crtcs[k].id
      ]_vars

\* C12 witness: a set_temperature() over two controllers failed at the
\* second; the first holds the new ramp, the second its old one
C12_Witness ==
    /\ method = "randr" /\ ret.op = "set_temperature" /\ ret.status = "Err"
    /\ Len(crtcs) = 2 /\ Len(reqs) = 4
    /\ \A k \in 1..2 : crtcs[k].ramp_size > 0
    /\ hwRamp[crtcs[1].id] = Pushed(reqs, 1)
    /\ hwRamp[crtcs[2].id] # Pushed(reqs, 2)
    /\ hwRamp[crtcs[2].id] = captured[2]

\* C13: read baseline before write. Every SetCrtcGamma request that a
\* set_temperature() or restore() call issues names a controller whose gamma
\* size and current ramps a start() call on this backend has read and stored
\* before.
C13_ReadBeforeWrite ==
    PushCall =>
      \A i \in 1..Len(reqs) :
        reqs[i].type = "SetCrtcGamma" =>
          /\ started
          /\ reqs[i].crtc \in 1..Len(captured)
          /\ \E k \in 1..Len(crtcs) :
               /\ crtcs[k].id = reqs[i].crtc
               /\ crtcs[k].ramp_size = srvGammaSize[reqs[i].crtc]

\* C13 witness: after a start() that failed at the second controller's
\* reads, a restore() wrote the first controller only
C13_Witness ==
    /\ PushCall /\ ret.op = "restore"
    /\ Len(srvGammaSize) = 2 /\ Len(captured) = 1
    /\ Len(reqs) = 2 /\ reqs[1].type = "SetCrtcGamma" /\ reqs[1].crtc = 1

\* red, green and blue of `ramps` all have n entries
RampLengths(ramps, n) == \A c \in 1..3 : Len(ramps[c]) = n

\* C14: ramp-length invariant. In every reachable state the red, green and
\* blue sequences of every managed controller's saved_ramps and scratch
\* (the buffers handed to the colour ramp computation together with
\* ramp_size) have ramp_size entries each, and every ramp a
\* set_temperature() or restore() call sends has ramp_size entries per
\* channel.
C14_RampLengths ==
    /\ \A k \in 1..Len(crtcs) :
         /\ RampLengths(crtcs[k].saved_ramps, crtcs[k].ramp_size)
         /\ RampLengths(crtcs[k].scratch, crtcs[k].ramp_size)
    /\ PushCall =>
         \A k \in 1..(Len(reqs) \div 2) :
           RampLengths(Pushed(reqs, k), crtcs[k].ramp_size)

\* C14 witness: set_temperature() went through on two controllers of
\* different ramp sizes
C14_Witness ==
    /\ PushCall /\ ret.op = "set_temperature" /\ ret.status = "Ok"
    /\ Len(crtcs) = 2
    /\ crtcs[1].ramp_size # crtcs[2].ramp_size
    /\ Len(Pushed(reqs, 1)[1]) = crtcs[1].ramp_size
    /\ Len(Pushed(reqs, 2)[1]) = crtcs[2].ramp_size

\* (i / n) * 65536 rounded to the nearest integer, and truncated
Rounded(i, n) == (2 * i * 65536 + n) \div (2 * n)
Truncated(i, n) == (i * 65536) \div n

\* the linear ramp that set_temperature() writes into the scratch buffers of
\* the k-th controller before colour correction has value(i, n) at every
\* index i of every channel
LinearRampIs(k, value(_, _)) ==
    LET n == crtcs[k].ramp_size
        lin == LinearScratch(crtcs[k])
    IN  \A c \in 1..3 :
          /\ Len(lin[c]) = n
          /\ \A i \in 0..(n - 1) : lin[c][i + 1] = value(i, n)

RoundedClamped(i, n) == Min(Max(Rounded(i, n), 0), 65535)

\* C15 as claimed: the linear ramp value at index i of a ramp of n entries
\* is round((i / n) * 65536) clamped to [0, 65535], in all three channels.
C15_LinearRampRounded ==
    (PushCall /\ ret.op = "set_temperature") =>
      \A k \in 1..(Len(reqs) \div 2) : LinearRampIs(k, RoundedClamped)

\* C15: the linear ramp value at index i of a ramp of n >= 1 entries is
\* (i / n) * 65536 truncated toward zero, identically for red, green and
\* blue; index 0 is 0 and no value exceeds 65535, so the clamp never acts.
C15_LinearRampTruncated ==
    (PushCall /\ ret.op = "set_temperature") =>
      \A k \in 1..(Len(reqs) \div 2) :
        /\ LinearRampIs(k, Truncated)
        /\ \A c \in 1..3 :
             LET lin == LinearScratch(crtcs[k])[c]
             IN  /\ Len(lin) > 0 => lin[1] = 0
                 /\ \A j \in 1..Len(lin) : lin[j] <= 65535
                 /\ lin = LinearScratch(crtcs[k])[1]

\* C15 witness: a controller of three entries was adjusted; its linear ramp
\* is 0, 21845, 43690, where rounding would give 43691 for the last entry
C15_Witness ==
    /\ PushCall /\ ret.op = "set_temperature" /\ Len(reqs) >= 2
    /\ crtcs[1].ramp_size = 3
    /\ LinearScratch(crtcs[1])[1] = << 0, 21845, 43690 >>
    /\ Rounded(2, 3) = 43691

\* C16: after every successful start() the controller collection holds
\* exactly one record per controller the server enumerated in that call, in
\* enumeration order, each with the gamma size the server reported and with
\* saved_ramps and scratch both equal to the ramps it reported; and a
\* repeated start() replaces the collection, so that no controller is ever
\* listed twice.
C16_StartCapturesEveryController ==
    method = "randr" =>
      /\ \A j, k \in 1..Len(crtcs) : j # k => crtcs[j].id # crtcs[k].id
      /\ (ret.op = "start" /\ ret.status = "Ok") =>
           /\ Len(crtcs) = Len(srvGammaSize)
           /\ Len(reqs) = 2 * Len(crtcs) + 1
           /\ \A k \in 1..Len(crtcs) :
                /\ crtcs[k].id = k /\ k \in CrtcIds
                /\ reqs[2 * k].type = "GetCrtcGammaSize"
                /\ reqs[2 * k].crtc = crtcs[k].id
                /\ crtcs[k].ramp_size = reqs[2 * k].data[1]
                /\ reqs[2 * k + 1].type = "GetCrtcGamma"
                /\ reqs[2 * k + 1].crtc = crtcs[k].id
                /\ crtcs[k].saved_ramps = reqs[2 * k + 1].data
                /\ crtcs[k].scratch = reqs[2 * k + 1].data
                /\ hwRamp[crtcs[k].id] = reqs[2 * k + 1].data

\* C16 witness: a second start() in a row succeeded on two controllers
C16_Witness ==
    /\ method = "randr" /\ ret.op = "start" /\ ret.status = "Ok" /\ again
    /\ Len(crtcs) = 2 /\ SomeRamp

C18_UnstartedCallsAreNoOps ==
    (method # "none" /\ ~started /\ ret.op \in {"set_temperature", "restore"}) =>
      /\ ret.status = "Ok"
      /\ reqs = <<>>
      /\ crtcs = <<>>
      /\ \A id \in CrtcIds : hwRamp[id] = BaselineRamp(id, srvGammaSize[id])

\* C18 witness: set_temperature() was called on a RandR backend that was
\* never started, on a server that has two controllers
C18_Witness ==
    /\ method = "randr" /\ ~started
    /\ ret.op = "set_temperature" /\ ret.status = "Ok"
    /\ Len(srvGammaSize) = 2 /\ srvGammaSize[1] > 0

\* C19: the state a failed start() leaves. When the enumeration request
\* fails the controller collection is unchanged; when the size or ramp
\* request of the k-th enumerated controller fails the collection holds
\* exactly the records of the k-1 controllers read before it in this call,
\* whatever it held before; and a set_temperature() or restore() that
\* follows issues requests for those controllers only.
C19_FailedStartState ==
    [][ method = "randr" =>
          /\ (ret'.op = "start" /\ ret'.status = "Err") =>
               LET last == reqs'[Len(reqs')]
               IN  /\ last.reply = "error"
                   /\ IF last.type = "GetScreenResources"
                      THEN crtcs' = crtcs
                      ELSE /\ last.type \in {"GetCrtcGammaSize", "GetCrtcGamma"}
                           /\ last.crtc \in CrtcIds
                           /\ Len(crtcs') = last.crtc - 1
                           /\ \A j \in 1..(last.crtc - 1) :
                                crtcs'[j] = Crtc(j, srvGammaSize[j], hwRamp[j], hwRamp[j])
          /\ ( /\ ret.op = "start" /\ ret.status = "Err"
               /\ ret'.op \in {"set_temperature", "restore"} ) =>
               /\ Len(reqs') <= 2 * Len(crtcs)
               /\ \A i \in 1..Len(reqs') :
                    \E j \in 1..Len(crtcs) : reqs'[i].crtc = crtcs[j].id
      ]_vars

\* C19 witness: start() failed at the ramp read of the second of two
\* controllers and left the record of the first
C19_Witness ==
    /\ method = "randr" /\ ret.op = "start" /\ ret.status = "Err"
    /\ Len(srvGammaSize) = 2 /\ Len(crtcs) = 1 /\ crtcs[1].id = 1
    /\ reqs[Len(reqs)].type = "GetCrtcGamma" /\ reqs[Len(reqs)].crtc = 2

\* C20: in every program run the backend operations occur in the order
\* construct, start(), set_temperature(), each at most once; start() is
\* called only after a construction that succeeded, and set_temperature()
\* only after a start() that succeeded.
C20_MainCallOrder ==
    [][ calls' # calls =>
          \E op \in {"init", "start", "set_temperature"} :
            /\ calls' = Append(calls, op)
            /\ op = "init" => calls = <<>>
            /\ op = "start" =>
                 /\ calls = << "init" >>
                 /\ ret.op = "init" /\ ret.status = "Ok" /\ method # "none"
            /\ op = "set_temperature" =>
                 /\ calls = << "init", "start" >>
                 /\ ret.op = "start" /\ ret.status = "Ok"
                 /\ pc' = "done"
      ]_vars

\* C20 witness: a run that constructed the RandR backend, started it on a
\* server with a controller and set the temperature
C20_Witness ==
    /\ calls = << "init", "start", "set_temperature" >>
    /\ method = "randr" /\ pc = "done" /\ exit = "Ok"
    /\ Len(crtcs) >= 1

====
